---- MODULE Spec2Model ----
(***************************************************************************)
(* Model of src/script.js: the chat front end's session state              *)
(* (allSessions, currentSessionId), its localStorage snapshot, the         *)
(* rendered chat history, the asynchronous life cycle of handleChatSubmit, *)
(* exportChat, and handleFileUpload with the callbacks of its request.     *)
(*                                                                         *)
(* Specifications: Spec (the chat page, localStorage has room), SpecQuota  *)
(* (setItem may throw), SpecLive (Spec with every pending request being    *)
(* answered), SpecExport and SpecEmpty (the chat page with its export      *)
(* button), SpecUpload (the upload zone).                                  *)
(*                                                                         *)
(* Representation of JavaScript values                                     *)
(*   - a string is a sequence of chunks (TLA+ strings); concatenation is   *)
(*     \o, "" is << >>;                                                    *)
(*   - the value undefined, where a string is expected, is Undefined;      *)
(*   - a session id `session-${t}` is the positive integer t; null is      *)
(*     Null; the four-character string "null" is NullString;               *)
(*   - a title `Chat ${n}` is the integer n;                               *)
(*   - a DOM id `msg-${t}` is the integer t;                               *)
(*   - an object with insertion-ordered keys (allSessions) is a sequence   *)
(*     of entries with distinct ids.                                       *)
(*                                                                         *)
(* Not modelled: the landing page, the theme toggle, the copy button, the  *)
(* markdown formatting of a bubble, the hiding of the notification after   *)
(* three seconds.  Date.now() returns one value throughout a synchronous   *)
(* run.                                                                    *)
(*                                                                         *)
(* A handler runs to completion on a record m (the "machine"): each        *)
(* statement is an operator m -> m that does nothing once m.exc holds a    *)
(* thrown exception, so a handler is the composition of its statements     *)
(* and an exception leaves exactly the effects of the statements before    *)
(* it.                                                                     *)
(***************************************************************************)
EXTENDS Integers, Sequences, FiniteSets

VARIABLES
    pc,                 \* "boot" before init() has run, "ready" after
    allSessions,        \* script.js:27
    currentSessionId,   \* script.js:28
    lsSessions,         \* localStorage slot 'chatSessions'
    lsCurrent,          \* localStorage slot 'currentSessionId'
    now,                \* the value Date.now() returns
    chatHistory,        \* children of #chat-history
    sessionList,        \* children of #chat-sessions
    notification,       \* the notification banner
    requests,           \* suspended handleChatSubmit invocations
    download,           \* the file exportChat last handed to the browser
    progress,           \* width of #upload-progress-bar, in percent
    uploads,            \* XMLHttpRequests of handleFileUpload in flight
    events,             \* state-changing user events and clock ticks so far
    log                 \* what the last handler run did (observation only)

vars == <<pc, allSessions, currentSessionId, lsSessions, lsCurrent,
          now, chatHistory, sessionList, notification, requests, download,
          progress, uploads, events, log>>

----------------------------------------------------------------------------
(* Bounds *)

MaxEvents == 3      \* state-changing user events and clock ticks after init()
MaxInFlight == 1    \* suspended handleChatSubmit invocations
MaxUploads == 2     \* XMLHttpRequests of handleFileUpload in flight

----------------------------------------------------------------------------
(* JavaScript values *)

Null == 0
NullString == 0 - 1
Undefined == <<"#undefined">>
EarlierTime == 1
FirstTime == EarlierTime + 1

Greeting == <<"Hello! Ask me anything about the knowledge base.">>
TypingText == <<"typing...">>
DefaultChatError == <<"Failed to get response.">>

\* messages of the exceptions the runtime raises
FetchFailed == <<"Failed to fetch">>
JsonSyntaxError == <<"Unexpected token">>
ReplaceOfUndefined == <<"Cannot read properties of undefined (reading 'replace')">>
MessagesOfUndefined == <<"Cannot read properties of undefined (reading 'messages')">>
QuotaExceeded == <<"The quota has been exceeded.">>

NoExc == << >>

Whitespace == {" ", "\t"}

\* String.prototype.trim
RECURSIVE TrimStart(_)
TrimStart(s) ==
    IF s # << >> /\ Head(s) \in Whitespace THEN TrimStart(Tail(s)) ELSE s

RECURSIVE TrimEnd(_)
TrimEnd(s) ==
    IF s # << >> /\ s[Len(s)] \in Whitespace
    THEN TrimEnd(SubSeq(s, 1, Len(s) - 1)) ELSE s

Trim(s) == TrimEnd(TrimStart(s))

\* String(v) as applied by localStorage.setItem to a session id
StringOf(v) == IF v = Null THEN NullString ELSE v

----------------------------------------------------------------------------
(* allSessions: an object whose keys keep their insertion order *)

Message(sender, text) == [sender |-> sender, text |-> text]

GreetingMessage == Message("bot", Greeting)

\* position of key id in S, 0 when S[id] is undefined
IndexOf(S, id) ==
    IF \E i \in 1..Len(S) : S[i].id = id
    THEN CHOOSE i \in 1..Len(S) : S[i].id = id
    ELSE 0

HasKey(S, id) == IndexOf(S, id) # 0

\* S[id] = session: an existing key keeps its position, a new key goes last
PutSession(S, id, session) ==
    LET e == [id |-> id, title |-> session.title, messages |-> session.messages]
    IN  IF HasKey(S, id) THEN [S EXCEPT ![IndexOf(S, id)] = e] ELSE Append(S, e)

MessagesOf(S, id) == S[IndexOf(S, id)].messages

----------------------------------------------------------------------------
(* JSON.stringify / JSON.parse of allSessions *)

\* a property whose value is undefined is left out of the text
StringifyMessage(msg) ==
    IF msg.text = Undefined THEN <<msg.sender>> ELSE <<msg.sender, msg.text>>

\* reading the property the text left out yields undefined
ParseMessage(j) ==
    IF Len(j) = 1 THEN Message(j[1], Undefined) ELSE Message(j[1], j[2])

StringifySession(e) ==
    <<e.id, e.title, [i \in 1..Len(e.messages) |-> StringifyMessage(e.messages[i])]>>

ParseSession(j) ==
    [id |-> j[1], title |-> j[2],
     messages |-> [i \in 1..Len(j[3]) |-> ParseMessage(j[3][i])]]

Stringify(S) == [kind |-> "json", val |-> [i \in 1..Len(S) |-> StringifySession(S[i])]]

Parse(text) == [i \in 1..Len(text.val) |-> ParseSession(text.val[i])]

AbsentItem == [kind |-> "absent", val |-> << >>]
CorruptItem == [kind |-> "corrupt", val |-> << >>]

----------------------------------------------------------------------------
(* The machine a handler runs on *)

\* storeOk: whether localStorage.setItem succeeds during the run (it throws
\* QuotaExceededError while the origin's quota is exhausted)
Machine(storeOk) ==
    [sessions |-> allSessions, current |-> currentSessionId,
     lsS |-> lsSessions, lsC |-> lsCurrent,
     ui |-> chatHistory, list |-> sessionList, note |-> notification,
     download |-> download, progress |-> progress,
     storeOk |-> storeOk, writeFailed |-> FALSE, shown |-> 0, exc |-> NoExc]

Ran(m) == m.exc = NoExc

Throw(m, message) == IF Ran(m) THEN [m EXCEPT !.exc = message] ELSE m

\* setItem throws QuotaExceededError
ThrowQuota(m) == Throw([m EXCEPT !.writeFailed = TRUE], QuotaExceeded)

\* entry of a catch block: the exception is taken
Caught(m) == [m EXCEPT !.exc = NoExc]

Element(id, sender, text) ==
    [id |-> id, sender |-> sender, typing |-> (text = TypingText), text |-> text]

\* addMessageToUI(sender, text); the id it returns is now. Date.now() returns
\* one value throughout a synchronous run
addMessageToUI(m, sender, text) ==
    IF ~Ran(m) THEN m
    ELSE IF text = Undefined THEN Throw(m, ReplaceOfUndefined)
    ELSE [m EXCEPT !.ui = Append(@, Element(now, sender, text))]

\* assigning undefined to textContent empties the element
TextContent(value) == IF value = Undefined THEN << >> ELSE value

\* shown counts the calls of the run
showNotification(m, message, isError) ==
    IF ~Ran(m) THEN m
    ELSE [m EXCEPT !.note = [text |-> TextContent(message), isError |-> isError],
                   !.shown = @ + 1]

\* localStorage.setItem('chatSessions', v)
setSessionsItem(m, v) ==
    IF ~Ran(m) THEN m
    ELSE IF ~m.storeOk THEN ThrowQuota(m)
    ELSE [m EXCEPT !.lsS = v]

\* localStorage.setItem('currentSessionId', v)
setCurrentItem(m, v) ==
    IF ~Ran(m) THEN m
    ELSE IF ~m.storeOk THEN ThrowQuota(m)
    ELSE [m EXCEPT !.lsC = StringOf(v)]

saveSessions(m) ==
    LET m1 == setSessionsItem(m, Stringify(m.sessions))
    IN  setCurrentItem(m1, m1.current)

renderSessionList(m) ==
    IF ~Ran(m) THEN m
    ELSE [m EXCEPT !.list =
            [i \in 1..Len(m.sessions) |->
                [id |-> m.sessions[i].id, title |-> m.sessions[i].title,
                 active |-> (m.sessions[i].id = m.current)]]]

RECURSIVE RenderMessages(_, _)
RenderMessages(m, msgs) ==
    IF msgs = << >> THEN m
    ELSE RenderMessages(addMessageToUI(m, Head(msgs).sender, Head(msgs).text),
                        Tail(msgs))

loadChatHistory(m) ==
    IF ~Ran(m) THEN m
    ELSE LET m1 == [m EXCEPT !.ui = << >>]
         IN  IF HasKey(m1.sessions, m1.current)
             THEN RenderMessages(m1, MessagesOf(m1.sessions, m1.current))
             ELSE m1

\* createNewSession seeding no greeting; C20 tells the two apart
createNewSession_NoGreeting(m) ==
    IF ~Ran(m) THEN m
    ELSE LET newSessionId == now
             m1 == [m EXCEPT !.current = newSessionId]
             m2 == [m1 EXCEPT !.sessions =
                        PutSession(@, m1.current,
                                   [title |-> Len(m1.sessions) + 1,
                                    messages |-> << >>])]
         IN  saveSessions(loadChatHistory(renderSessionList(m2)))

createNewSession(m) ==
    IF ~Ran(m) THEN m
    ELSE LET newSessionId == now
             m1 == [m EXCEPT !.current = newSessionId]
             m2 == [m1 EXCEPT !.sessions =
                        PutSession(@, m1.current,
                                   [title |-> Len(m1.sessions) + 1,
                                    messages |-> <<GreetingMessage>>])]
         IN  saveSessions(loadChatHistory(renderSessionList(m2)))

\* switchSession without its first line; C6 tells the two apart
switchSession_NoEarlyReturn(m, sessionId) ==
    IF ~Ran(m) THEN m
    ELSE LET m1 == [m EXCEPT !.current = sessionId]
         IN  setCurrentItem(renderSessionList(loadChatHistory(m1)), m1.current)

switchSession(m, sessionId) ==
    IF ~Ran(m) THEN m
    ELSE IF sessionId = m.current THEN m
    ELSE LET m1 == [m EXCEPT !.current = sessionId]
         IN  setCurrentItem(renderSessionList(loadChatHistory(m1)), m1.current)

loadSessions(m) ==
    IF ~Ran(m) THEN m
    ELSE IF m.lsS.kind = "corrupt" THEN Throw(m, JsonSyntaxError)
    ELSE LET m1 == [m EXCEPT !.sessions =
                        IF m.lsS.kind = "absent" THEN << >> ELSE Parse(m.lsS)]
             m2 == [m1 EXCEPT !.current = m1.lsC]
         IN  IF m2.current = Null \/ ~HasKey(m2.sessions, m2.current)
             THEN createNewSession(m2)
             ELSE m2

init(m) == loadChatHistory(renderSessionList(loadSessions(m)))

\* allSessions[currentSessionId].messages.push(msg)
pushMessage(m, msg) ==
    IF ~Ran(m) THEN m
    ELSE IF ~HasKey(m.sessions, m.current) THEN Throw(m, MessagesOfUndefined)
    ELSE LET i == IndexOf(m.sessions, m.current)
         IN  [m EXCEPT !.sessions[i].messages = Append(@, msg)]

\* clearChat pushing the greeting instead of assigning it; C11 tells the two
\* apart
clearChat_Appends(m) ==
    IF ~Ran(m) THEN m
    ELSE IF ~HasKey(m.sessions, m.current) THEN m
    ELSE LET i  == IndexOf(m.sessions, m.current)
             m1 == [m EXCEPT !.sessions[i].messages = Append(@, GreetingMessage),
                             !.ui = << >>]
             m2 == addMessageToUI(m1, "bot", Greeting)
         IN  showNotification(saveSessions(m2), <<"Chat cleared">>, FALSE)

clearChat(m) ==
    IF ~Ran(m) THEN m
    ELSE IF ~HasKey(m.sessions, m.current) THEN m
    ELSE LET i  == IndexOf(m.sessions, m.current)
             m1 == [m EXCEPT !.sessions[i].messages = <<GreetingMessage>>,
                             !.ui = << >>]
             m2 == addMessageToUI(m1, "bot", Greeting)
         IN  showNotification(saveSessions(m2), <<"Chat cleared">>, FALSE)

\* `${msg.text}`: a template literal renders undefined as the word
TemplateText(text) == IF text = Undefined THEN <<"undefined">> ELSE text

\* the sender label of one exported line, with the user's label and the
\* assistant's exchanged; C12 tells the two apart
ExportSender_Swapped(msg) == IF msg.sender = "user" THEN "AI Assistant" ELSE "You"

ExportSender(msg) == IF msg.sender = "user" THEN "You" ELSE "AI Assistant"

\* chatText += `[${sender}]: ${msg.text}\n`
ExportLine(msg) ==
    <<"[", ExportSender(msg), "]: ">> \o TemplateText(msg.text) \o <<"\n">>

RECURSIVE ExportLines(_)
ExportLines(messages) ==
    IF messages = << >> THEN << >>
    ELSE ExportLine(Head(messages)) \o ExportLines(Tail(messages))

\* the header `Chat Session: ${title}\nExported on: ${date}\n\n` is kept as the
\* title and the date it is built from, the lines after it as text
exportChat(m) ==
    IF ~Ran(m) THEN m
    ELSE IF ~HasKey(m.sessions, m.current) \/ MessagesOf(m.sessions, m.current) = << >>
         THEN showNotification(m, <<"Nothing to export.">>, TRUE)
    ELSE LET session == m.sessions[IndexOf(m.sessions, m.current)]
         IN  [m EXCEPT !.download = [title |-> session.title, date |-> now,
                                     text |-> ExportLines(session.messages)]]

----------------------------------------------------------------------------
(* handleChatSubmit: three runs, separated by its two awaits *)

\* document.getElementById(typingId)?.remove(): the first element, in document
\* order, that carries the id
RECURSIVE RemoveFirst(_, _)
RemoveFirst(ui, id) ==
    IF ui = << >> THEN << >>
    ELSE IF Head(ui).id = id THEN Tail(ui)
    ELSE <<Head(ui)>> \o RemoveFirst(Tail(ui), id)

removeElementById(m, id) ==
    IF ~Ran(m) THEN m ELSE [m EXCEPT !.ui = RemoveFirst(@, id)]

ErrorText(message) == <<"Error: ">> \o message

\* the same run with the input taken untrimmed; C10 tells the two apart
submitRun_NoTrim(m, value) ==
    LET userText == value
    IN  IF userText = << >> THEN m
        ELSE LET m1 == pushMessage(m, Message("user", userText))
                 m2 == addMessageToUI(m1, "user", userText)
                 m3 == saveSessions(m2)
             IN  addMessageToUI(m3, "bot", TypingText)

\* lines 142-152, up to the call of fetch
submitRun(m, value) ==
    LET userText == Trim(value)
    IN  IF userText = << >> THEN m
        ELSE LET m1 == pushMessage(m, Message("user", userText))
                 m2 == addMessageToUI(m1, "user", userText)
                 m3 == saveSessions(m2)
             IN  addMessageToUI(m3, "bot", TypingText)

\* lines 172-179: the catch block, entered with the exception's message
catchRun(m, typingId, message) ==
    LET m1 == removeElementById(Caught(m), typingId)
        m2 == pushMessage(m1, Message("bot", ErrorText(message)))
        m3 == addMessageToUI(m2, "bot", ErrorText(message))
    IN  saveSessions(m3)

\* fetch rejected (network error): control enters the catch block
fetchRejectedRun(m, typingId) == catchRun(Throw(m, FetchFailed), typingId, FetchFailed)

\* fetch resolved: line 161, then response.json() is awaited on either branch
fetchResolvedRun(m, typingId) == removeElementById(m, typingId)

\* the responses of the chat endpoint, <<response.ok, body>>; a body is not
\* JSON ("garbage"), {} ("empty"), {answer: ...} or {detail: ...}
Responses ==
    { <<TRUE, "answer">>, <<TRUE, "empty">>, <<TRUE, "garbage">>,
      <<FALSE, "detail">>, <<FALSE, "empty">> }
AnswerText == <<"X is Y">>
DetailText == <<"index unavailable">>

answerOf(body) == IF body = "answer" THEN AnswerText ELSE Undefined
detailOf(body) == IF body = "detail" THEN DetailText ELSE Undefined

\* the error thrown for a response that is not ok, were errorData.detail
\* not looked at; C13 tells the two apart
detailOrDefault_Ignored(body) == DefaultChatError

\* errorData.detail || 'Failed to get response.'
detailOrDefault(body) ==
    IF detailOf(body) = Undefined \/ detailOf(body) = << >>
    THEN DefaultChatError ELSE detailOf(body)

\* lines 163-171 once response.json() has settled
tryRun(m, ok, body) ==
    IF body = "garbage" THEN Throw(m, JsonSyntaxError)
    ELSE IF ~ok THEN Throw(m, detailOrDefault(body))
    ELSE LET m1 == pushMessage(m, Message("bot", answerOf(body)))
             m2 == addMessageToUI(m1, "bot", answerOf(body))
         IN  saveSessions(m2)

jsonSettledRun(m, typingId, ok, body) ==
    LET m1 == tryRun(m, ok, body)
    IN  IF Ran(m1) THEN m1 ELSE catchRun(m1, typingId, m1.exc)

----------------------------------------------------------------------------
(* handleFileUpload: the callbacks of its XMLHttpRequest *)

\* fileInput.files[0] when no file was chosen
NoFile == "#undefined"

Files == {NoFile, "notes.pdf"}

\* xhr.status === 200, and a status of the else branch
StatusOk == 200
StatusBadRequest == 400

\* <<xhr.status, xhr.responseText>>; a body is not JSON ("garbage"), {}
\* ("empty"), {message: ...} or {detail: ...}
UploadResponses ==
    { <<StatusOk, "message">>, <<StatusOk, "empty">>, <<StatusOk, "garbage">>,
      <<StatusBadRequest, "detail">>, <<StatusBadRequest, "empty">>,
      <<StatusBadRequest, "garbage">> }

UploadMessageText == <<"notes.pdf indexed">>
UploadFailedText == <<"Upload failed. Connection error.">>

messageOf(body) == IF body = "message" THEN UploadMessageText ELSE Undefined

\* (event.loaded / event.total) * 100 of the progress events delivered
Percents == {50, 100}

\* xhr.upload.onprogress
uploadOnProgress(m, lengthComputable, percent) ==
    IF ~Ran(m) THEN m
    ELSE IF lengthComputable THEN [m EXCEPT !.progress = percent]
    ELSE m

\* xhr.onload
uploadOnLoad(m, status, body) ==
    IF ~Ran(m) THEN m
    ELSE LET m1 == [m EXCEPT !.progress = 0]
         IN  IF body = "garbage" THEN Throw(m1, JsonSyntaxError)
             ELSE IF status = StatusOk
                  THEN showNotification(m1, messageOf(body), FALSE)
             ELSE showNotification(m1, detailOf(body), TRUE)

\* xhr.onerror
uploadOnError(m) ==
    LET m1 == showNotification(m, UploadFailedText, TRUE)
    IN  IF ~Ran(m1) THEN m1 ELSE [m1 EXCEPT !.progress = 0]

----------------------------------------------------------------------------
(* State machine *)

NoNotification == [text |-> << >>, isError |-> FALSE]

\* no file has been handed to the browser yet
NoDownload == [title |-> Null, date |-> Null, text |-> << >>]

\* what the earlier run left in localStorage: one session with one exchange
EarlierSessions ==
    <<[id |-> EarlierTime, title |-> 1,
       messages |-> <<GreetingMessage, Message("user", <<"What is X?">>),
                      Message("bot", AnswerText)>>]>>

\* the contents of localStorage when the page loads
PersistedStores ==
    { <<AbsentItem, Null>>,
      <<CorruptItem, Null>>,
      <<Stringify(EarlierSessions), StringOf(EarlierTime)>> }

\* a snapshot whose session has no messages: loadSessions takes whatever
\* parses, and nothing but this page's own writes keeps messages non-empty
EmptySessionStore ==
    <<Stringify(<<[id |-> EarlierTime, title |-> 1, messages |-> << >>]>>),
      StringOf(EarlierTime)>>

\* what a user can have typed into #user-input
InputValues ==
    { << >>, <<" ", "\t">>, <<"What is X?">>, <<" ", "What is X?", "\t">> }

\* the ids switchSession may be called with: those of the rendered list items
\* and one more, which is a key only if the earlier run's snapshot was loaded
SessionIds == {allSessions[i].id : i \in 1..Len(allSessions)} \cup {EarlierTime}

\* op: the handler that ran; id: the session id it was called with, or for a
\* chat submission the value of currentSessionId when it was submitted;
\* value: the submitted input; escaped: the run ended in an uncaught exception;
\* writeFailed: a setItem of the run threw; shown: the notifications the run
\* showed.  For the callbacks of an upload id is the HTTP status and value the
\* response body.
LogEntry(op, id, value, m) ==
    [op |-> op, id |-> id, value |-> value, escaped |-> ~Ran(m),
     writeFailed |-> m.writeFailed, shown |-> m.shown]

\* the handler's effects on the page's state
Commit(m) ==
    /\ allSessions' = m.sessions
    /\ currentSessionId' = m.current
    /\ lsSessions' = m.lsS
    /\ lsCurrent' = m.lsC
    /\ chatHistory' = m.ui
    /\ sessionList' = m.list
    /\ notification' = m.note
    /\ download' = m.download
    /\ progress' = m.progress

\* a run in which setItem would throw is told apart only if it calls setItem
QuotaHit(m, storeOk) == storeOk \/ m.writeFailed

InitFrom(Stores) ==
    /\ pc = "boot"
    /\ allSessions = << >>
    /\ currentSessionId = Null
    /\ \E st \in Stores : lsSessions = st[1] /\ lsCurrent = st[2]
    /\ now = FirstTime
    /\ chatHistory = << >>
    /\ sessionList = << >>
    /\ notification = NoNotification
    /\ requests = << >>
    /\ download = NoDownload
    /\ progress = 0
    /\ uploads = << >>
    /\ events = 0
    /\ log = [op |-> "none", id |-> Null, value |-> << >>, escaped |-> FALSE,
              writeFailed |-> FALSE, shown |-> 0]

Init == InitFrom(PersistedStores)

\* DOMContentLoaded: the listeners are attached, then init() runs
Boot(storeOk) ==
    /\ pc = "boot"
    /\ LET m == init(Machine(storeOk))
       IN  QuotaHit(m, storeOk) /\ Commit(m) /\ log' = LogEntry("init", Null, << >>, m)
    /\ pc' = "ready"
    /\ UNCHANGED <<now, requests, uploads, events>>

\* click on #new-chat-btn
NewChat(storeOk) ==
    /\ pc = "ready" /\ events < MaxEvents
    /\ LET m == createNewSession(Machine(storeOk))
       IN  QuotaHit(m, storeOk) /\ Commit(m) /\ log' = LogEntry("create", Null, << >>, m)
    /\ events' = events + 1
    /\ UNCHANGED <<pc, now, requests, uploads>>

\* switchSession(sessionId)
SwitchTo(sessionId, storeOk) ==
    /\ pc = "ready"
    /\ sessionId # currentSessionId => events < MaxEvents
    /\ LET m == switchSession(Machine(storeOk), sessionId)
       IN  QuotaHit(m, storeOk) /\ Commit(m)
           /\ log' = LogEntry(IF sessionId = currentSessionId THEN "reselect" ELSE "switch",
                              sessionId, << >>, m)
    /\ events' = IF sessionId # currentSessionId THEN events + 1 ELSE events
    /\ UNCHANGED <<pc, now, requests, uploads>>

\* click on #clear-chat-btn
ClearChat(storeOk) ==
    /\ pc = "ready" /\ events < MaxEvents
    /\ LET m == clearChat(Machine(storeOk))
       IN  QuotaHit(m, storeOk) /\ Commit(m) /\ log' = LogEntry("clear", Null, << >>, m)
    /\ events' = events + 1
    /\ UNCHANGED <<pc, now, requests, uploads>>

\* click on #export-chat-btn
Export ==
    /\ pc = "ready"
    /\ events < MaxEvents
    /\ LET m == exportChat(Machine(TRUE))
       IN  Commit(m) /\ log' = LogEntry("export", currentSessionId, << >>, m)
    /\ events' = events + 1
    /\ UNCHANGED <<pc, now, requests, uploads>>

\* a suspended handleChatSubmit: its locals, the await it is suspended at, and
\* (observation only) the value of currentSessionId when it was called
Request(typingId, userText, origin) ==
    [typingId |-> typingId, userText |-> userText, origin |-> origin,
     stage |-> "fetch"]

\* submit of #chat-form with #user-input holding value
Submit(value, storeOk) ==
    /\ pc = "ready"
    /\ Trim(value) # << >> => events < MaxEvents /\ Len(requests) < MaxInFlight
    /\ LET m      == submitRun(Machine(storeOk), value)
           issued == Trim(value) # << >> /\ Ran(m)
       IN  /\ QuotaHit(m, storeOk)
           /\ Commit(m)
           /\ log' = LogEntry("submit", currentSessionId, value, m)
           /\ requests' = IF issued
                          THEN Append(requests, Request(now, Trim(value), currentSessionId))
                          ELSE requests
    /\ events' = IF Trim(value) # << >> THEN events + 1 ELSE events
    /\ UNCHANGED <<pc, now, uploads>>

Without(seq, i) == SubSeq(seq, 1, i - 1) \o SubSeq(seq, i + 1, Len(seq))

\* the fetch of request i rejects
FetchRejected(i, storeOk) ==
    /\ i \in 1..Len(requests) /\ requests[i].stage = "fetch"
    /\ LET m == fetchRejectedRun(Machine(storeOk), requests[i].typingId)
       IN  QuotaHit(m, storeOk) /\ Commit(m)
           /\ log' = LogEntry("rejected", requests[i].origin, << >>, m)
    /\ requests' = Without(requests, i)
    /\ UNCHANGED <<pc, now, uploads, events>>

\* the fetch of request i resolves with a response
FetchResolved(i) ==
    /\ i \in 1..Len(requests) /\ requests[i].stage = "fetch"
    /\ LET m == fetchResolvedRun(Machine(TRUE), requests[i].typingId)
       IN  Commit(m) /\ log' = LogEntry("resolved", requests[i].origin, << >>, m)
    /\ requests' = [requests EXCEPT ![i].stage = "json"]
    /\ UNCHANGED <<pc, now, uploads, events>>

\* response.json() of request i settles; the response had ok and body
JsonSettled(i, ok, body, storeOk) ==
    /\ i \in 1..Len(requests) /\ requests[i].stage = "json"
    /\ LET r == requests[i]
           m == jsonSettledRun(Machine(storeOk), r.typingId, ok, body)
       IN  QuotaHit(m, storeOk) /\ Commit(m)
           /\ log' = LogEntry(IF ok /\ body = "answer" THEN "answered"
                              ELSE IF ok /\ body = "empty" THEN "malformed"
                              ELSE IF ~ok /\ body = "detail" THEN "refused"
                              ELSE "failed",
                              r.origin, << >>, m)
    /\ requests' = Without(requests, i)
    /\ UNCHANGED <<pc, now, uploads, events>>

\* change of #file-input, or a drop on #upload-zone
HandleFileUpload(file) ==
    /\ pc = "ready"
    /\ file # NoFile => events < MaxEvents /\ Len(uploads) < MaxUploads
    /\ LET m == Machine(TRUE)
       IN  Commit(m) /\ log' = LogEntry("upload", Null, <<file>>, m)
    /\ uploads' = IF file # NoFile THEN Append(uploads, file) ELSE uploads
    /\ events' = IF file # NoFile THEN events + 1 ELSE events
    /\ UNCHANGED <<pc, now, requests>>

\* a progress event of upload i
UploadProgress(i, lengthComputable, percent) ==
    /\ i \in 1..Len(uploads)
    /\ LET m == uploadOnProgress(Machine(TRUE), lengthComputable, percent)
       IN  Commit(m) /\ log' = LogEntry("progress", Null, << >>, m)
    /\ UNCHANGED <<pc, now, requests, uploads, events>>

\* upload i received its response
UploadLoad(i, status, body) ==
    /\ i \in 1..Len(uploads)
    /\ LET m == uploadOnLoad(Machine(TRUE), status, body)
       IN  Commit(m) /\ log' = LogEntry("loaded", status, <<body>>, m)
    /\ uploads' = Without(uploads, i)
    /\ UNCHANGED <<pc, now, requests, events>>

\* upload i failed at the network level
UploadError(i) ==
    /\ i \in 1..Len(uploads)
    /\ LET m == uploadOnError(Machine(TRUE))
       IN  Commit(m) /\ log' = LogEntry("uploadError", Null, << >>, m)
    /\ uploads' = Without(uploads, i)
    /\ UNCHANGED <<pc, now, requests, events>>

\* time passes
Tick ==
    /\ pc = "ready" /\ events < MaxEvents
    /\ now' = now + 1
    /\ events' = events + 1
    /\ log' = [op |-> "tick", id |-> Null, value |-> << >>, escaped |-> FALSE,
               writeFailed |-> FALSE, shown |-> 0]
    /\ UNCHANGED <<pc, allSessions, currentSessionId, lsSessions, lsCurrent,
                   chatHistory, sessionList, notification, requests, download,
                   progress, uploads>>

\* the steps of the page; Quota is the set of values storeOk may take in a run
Step(Quota) ==
    \/ \E storeOk \in Quota : Boot(storeOk)
    \/ \E storeOk \in Quota : NewChat(storeOk)
    \/ \E id \in SessionIds, storeOk \in Quota : SwitchTo(id, storeOk)
    \/ \E storeOk \in Quota : ClearChat(storeOk)
    \/ \E value \in InputValues, storeOk \in Quota : Submit(value, storeOk)
    \/ \E i \in 1..Len(requests), storeOk \in Quota : FetchRejected(i, storeOk)
    \/ \E i \in 1..Len(requests) : FetchResolved(i)
    \/ \E i \in 1..Len(requests), r \in Responses, storeOk \in Quota :
            JsonSettled(i, r[1], r[2], storeOk)
    \/ Tick

\* localStorage has room: setItem never throws
Next == Step({TRUE})

Spec == Init /\ [][Next]_vars

\* the origin's quota may be exhausted during any run
NextQuota == Step(BOOLEAN)

SpecQuota == Init /\ [][NextQuota]_vars

\* the page with its export button, loaded on a first visit or from a store
\* whose session has no messages
InitExport == InitFrom({<<AbsentItem, Null>>, EmptySessionStore})

NextExport == Step({TRUE}) \/ Export

SpecExport == InitExport /\ [][NextExport]_vars

\* the page with its export button on a first visit: nothing is stored
InitEmpty == InitFrom({<<AbsentItem, Null>>})

SpecEmpty == InitEmpty /\ [][NextExport]_vars

\* the network settles every fetch and every response.json(): a suspended
\* handleChatSubmit is resumed
Resume ==
    \/ \E i \in 1..Len(requests) : FetchRejected(i, TRUE)
    \/ \E i \in 1..Len(requests) : FetchResolved(i)
    \/ \E i \in 1..Len(requests), r \in Responses : JsonSettled(i, r[1], r[2], TRUE)

SpecLive == Init /\ [][Next]_vars /\ WF_vars(Resume)

\* the page and its upload zone
NextUpload ==
    \/ Boot(TRUE)
    \/ \E file \in Files : HandleFileUpload(file)
    \/ \E i \in 1..Len(uploads), lengthComputable \in BOOLEAN, percent \in Percents :
            UploadProgress(i, lengthComputable, percent)
    \/ \E i \in 1..Len(uploads), r \in UploadResponses : UploadLoad(i, r[1], r[2])
    \/ \E i \in 1..Len(uploads) : UploadError(i)

SpecUpload == Init /\ [][NextUpload]_vars

----------------------------------------------------------------------------
(* Vocabulary of the properties *)

\* S with msg appended to the messages of session id, everything else as it was
WithAppended(S, id, msg) ==
    [i \in 1..Len(S) |->
        IF S[i].id = id THEN [S[i] EXCEPT !.messages = Append(@, msg)] ELSE S[i]]

\* the text is empty or consists of whitespace only
Blank(value) == \A i \in 1..Len(value) : value[i] \in Whitespace

IsErrorText(text) == text # Undefined /\ Len(text) >= 1 /\ text[1] = "Error: "

RECURSIVE CountMessages(_)
CountMessages(S) ==
    IF S = << >> THEN 0 ELSE Len(Head(S).messages) + CountMessages(Tail(S))

\* the step issued a request: a handleChatSubmit is now suspended at its fetch
RequestIssued == Len(requests') = Len(requests) + 1

ReplyOps == {"rejected", "failed", "refused", "malformed", "answered"}

\* the repository a page load reconstructs from what saveSessions writes now
Reloaded ==
    LET saved == saveSessions(Machine(TRUE))
    IN  loadSessions([saved EXCEPT !.sessions = << >>, !.current = Null])

----------------------------------------------------------------------------
(* Properties *)

\* C1: a submission that receives a successful reply appends its user message,
\* and then the answer as one bot message, to the session that was active when
\* it was submitted, whatever session is active when the reply arrives; no
\* other session receives a message.
C1_ExchangeStaysInOriginSession ==
    [][/\ (log'.op = "submit" /\ RequestIssued) =>
              allSessions' = WithAppended(allSessions, log'.id,
                                          Message("user", Trim(log'.value)))
       /\ log'.op = "answered" =>
              /\ HasKey(allSessions, log'.id)
              /\ allSessions' = WithAppended(allSessions, log'.id,
                                             Message("bot", AnswerText))]_vars

\* C2: a submission whose remote call fails (network error, non-2xx status,
\* malformed body) appends exactly one bot message, whose text begins with
\* "Error: ", to the session captured at submission, and no exception escapes.
C2_FailureAppendsOneErrorToOrigin ==
    [][log'.op \in {"rejected", "failed", "refused", "malformed"} =>
          /\ ~log'.escaped
          /\ HasKey(allSessions, log'.id)
          /\ \E i \in 1..Len(allSessions') :
                LET msgs == allSessions'[i].messages
                IN  /\ msgs # << >>
                    /\ msgs[Len(msgs)].sender = "bot"
                    /\ IsErrorText(msgs[Len(msgs)].text)
                    /\ allSessions' = WithAppended(allSessions, log'.id, msgs[Len(msgs)])]_vars

\* C3: after every createSession the active id is the id of the session just
\* created and there is exactly one session more than before, also when
\* Date.now() has not advanced since the previous creation.
C3_CreateAddsOneSession ==
    [][log'.op = "create" =>
          /\ currentSessionId' = now
          /\ HasKey(allSessions', currentSessionId')
          /\ Len(allSessions') = Len(allSessions) + 1]_vars

\* C4: once init() has run, the session mapping is non-empty and
\* currentSessionId is one of its keys.
C4_ActiveSessionExists ==
    pc = "ready" => allSessions # << >> /\ HasKey(allSessions, currentSessionId)

\* C5: switchSession(id) with an id that is no key of the mapping leaves the
\* active id unchanged, in memory and in localStorage.
C5_UnknownSwitchIgnored ==
    [][(log'.op \in {"switch", "reselect"} /\ ~HasKey(allSessions, log'.id)) =>
          /\ currentSessionId' = currentSessionId
          /\ lsCurrent' = lsCurrent]_vars

\* C6: switchSession(id) with id equal to the active id is a no-op: sessions,
\* active id, localStorage and the rendered page are what they were.
C6_SwitchToActiveIsNoOp ==
    [][log'.op = "reselect" =>
          /\ ~log'.escaped
          /\ UNCHANGED <<allSessions, currentSessionId, lsSessions, lsCurrent,
                         chatHistory, sessionList, notification, requests>>]_vars

\* C6 witness: the active session was selected again, after the clock moved
\* on from the time the chat history was rendered.
C6_Witness ==
    /\ log.op = "reselect" /\ log.id = currentSessionId
    /\ HasKey(allSessions, currentSessionId)
    /\ chatHistory # << >> /\ chatHistory[1].id # now

\* C7: when the stored session data cannot be parsed, init() does not raise and
\* ends with one freshly created session, which is active.
C7_CorruptStoreLoads ==
    [][(pc = "boot" /\ lsSessions.kind = "corrupt") =>
          /\ ~log'.escaped
          /\ Len(allSessions') = 1
          /\ allSessions'[1].messages = <<GreetingMessage>>
          /\ currentSessionId' = allSessions'[1].id]_vars

\* C8: when a write to localStorage fails during a mutating operation, no
\* exception escapes, a submission still issues its request and a reply still
\* appends exactly one bot message.
C8_WriteFailureSwallowed ==
    [][log'.writeFailed =>
          /\ ~log'.escaped
          /\ log'.op = "submit" => RequestIssued
          /\ log'.op \in ReplyOps =>
                CountMessages(allSessions') = CountMessages(allSessions) + 1]_vars

\* C9: saving the repository and loading it again reconstructs the same
\* sessions (keys, order, titles, messages) and the same active id.
C9_SaveLoadRoundTrip ==
    pc = "ready" =>
        /\ Ran(Reloaded)
        /\ Reloaded.sessions = allSessions
        /\ Reloaded.current = currentSessionId

\* C10: submitting empty or whitespace-only text appends no message, writes
\* nothing to localStorage, issues no request and raises nothing.
C10_BlankSubmitIgnored ==
    [][(log'.op = "submit" /\ Blank(log'.value)) =>
          /\ ~log'.escaped
          /\ UNCHANGED <<allSessions, currentSessionId, lsSessions, lsCurrent,
                         chatHistory, requests>>]_vars

\* C10 witness: whitespace-only text was submitted to a page with an active
\* session.
C10_Witness ==
    /\ log.op = "submit" /\ log.value # << >> /\ Blank(log.value)
    /\ HasKey(allSessions, currentSessionId)

\* C11: right after clearChat the active session holds exactly one message,
\* the bot greeting, and every other session is what it was.
C11_ClearLeavesGreeting ==
    [][(log'.op = "clear" /\ HasKey(allSessions, currentSessionId)) =>
          /\ currentSessionId' = currentSessionId
          /\ Len(allSessions') = Len(allSessions)
          /\ \A i \in 1..Len(allSessions) :
                IF allSessions[i].id = currentSessionId
                THEN /\ allSessions'[i].id = allSessions[i].id
                     /\ allSessions'[i].messages = <<Message("bot", Greeting)>>
                ELSE allSessions'[i] = allSessions[i]]_vars

\* C11 witness: the chat was cleared while a submission made in the active
\* session was still waiting for its reply, and another session holds an
\* exchange.
C11_Witness ==
    /\ log.op = "clear"
    /\ requests # << >> /\ requests[1].origin = currentSessionId
    /\ HasKey(allSessions, currentSessionId)
    /\ MessagesOf(allSessions, currentSessionId) = <<GreetingMessage>>
    /\ \E i \in 1..Len(allSessions) : Len(allSessions[i].messages) > 1

\* the lines of an exported text: the chunks between line feeds
RECURSIVE LinesOf(_, _)
LinesOf(text, line) ==
    IF text = << >> THEN IF line = << >> THEN << >> ELSE <<line>>
    ELSE IF Head(text) = "\n" THEN <<line>> \o LinesOf(Tail(text), << >>)
    ELSE LinesOf(Tail(text), Append(line, Head(text)))

\* the prefix the export gives the line of a message
LinePrefix(msg) ==
    IF msg.sender = "user" THEN <<"[", "You", "]: ">> ELSE <<"[", "AI Assistant", "]: ">>

\* C12: exporting an active session without messages reports a failure and
\* changes nothing else; exporting one with messages yields a text with one
\* line per message, in the order of the messages, each the sender's prefix
\* followed by the message text; neither changes sessions, active id or store.
C12_ExportListsMessages ==
    [][(log'.op = "export" /\ HasKey(allSessions, currentSessionId)) =>
          LET messages == MessagesOf(allSessions, currentSessionId)
              lines    == LinesOf(download'.text, << >>)
          IN  /\ UNCHANGED <<allSessions, currentSessionId, lsSessions, lsCurrent,
                             chatHistory, sessionList, requests>>
              /\ ~log'.escaped
              /\ IF messages = << >>
                 THEN /\ notification'.isError
                      /\ notification'.text = <<"Nothing to export.">>
                      /\ download' = download
                 ELSE /\ notification' = notification
                      /\ download'.title = allSessions[IndexOf(allSessions, currentSessionId)].title
                      /\ Len(lines) = Len(messages)
                      /\ \A i \in 1..Len(messages) :
                            lines[i] = LinePrefix(messages[i])
                                        \o TemplateText(messages[i].text)]_vars

\* C12 witness: a session holding a user message and bot messages has been
\* exported.
C12_Witness ==
    /\ log.op = "export"
    /\ download # NoDownload
    /\ HasKey(allSessions, currentSessionId)
    /\ \E i, j \in 1..Len(MessagesOf(allSessions, currentSessionId)) :
          /\ MessagesOf(allSessions, currentSessionId)[i].sender = "user"
          /\ MessagesOf(allSessions, currentSessionId)[j].sender = "bot"

\* the failure branch of C12 is taken as well: the export of a session without
\* messages
C12_EmptyExported ==
    /\ log.op = "export"
    /\ HasKey(allSessions, currentSessionId)
    /\ MessagesOf(allSessions, currentSessionId) = << >>
    /\ notification.isError

C14_UploadNotifiesOnce ==
    [][/\ (log'.op = "loaded" /\ log'.id = StatusOk /\ log'.value = <<"message">>) =>
              /\ log'.shown = 1
              /\ notification' = [text |-> UploadMessageText, isError |-> FALSE]
       /\ (log'.op = "loaded" /\ log'.id # StatusOk) =>
              /\ log'.shown = 1
              /\ notification'.isError
              /\ log'.value = <<"detail">> => notification'.text = DetailText
              /\ log'.value = <<"garbage">> => notification'.text = UploadFailedText
       /\ log'.op = "uploadError" =>
              /\ log'.shown = 1
              /\ notification' = [text |-> UploadFailedText, isError |-> TRUE]]_vars

\* the handlers that assign to allSessions or currentSessionId
MutatingOps == {"create", "switch", "submit", "clear"} \cup ReplyOps

\* C15: once a run that changed the sessions or the active id has ended, and
\* no write to the store failed, the store holds exactly the sessions and the
\* active id that are in memory.
C15_StoreEqualsMemory ==
    [][(/\ log'.op \in MutatingOps
        /\ allSessions' # allSessions \/ currentSessionId' # currentSessionId) =>
          /\ lsSessions' = Stringify(allSessions')
          /\ lsCurrent' = StringOf(currentSessionId')]_vars

\* the step appended exactly one message, sent by sender, to one session and
\* changed nothing else in the sessions
AppendedOne(sender) ==
    \E i \in 1..Len(allSessions') :
        LET msgs == allSessions'[i].messages
        IN  /\ msgs # << >>
            /\ msgs[Len(msgs)].sender = sender
            /\ i <= Len(allSessions)
            /\ allSessions' = WithAppended(allSessions, allSessions[i].id, msgs[Len(msgs)])
            /\ allSessions' # allSessions

\* C16: a submission appends its user message, then issues exactly one
\* request, then appends exactly one bot message: a request is issued only by
\* the run that appended the user message, that run issues one, the run that
\* completes a request appends exactly one bot message, and no bot message of
\* a submission is appended by any other run.
C16_SubmissionOrder ==
    [][/\ RequestIssued => log'.op = "submit" /\ AppendedOne("user")
       /\ (log'.op = "submit" /\ allSessions' # allSessions) => RequestIssued
       /\ Len(requests') <= Len(requests) + 1
       /\ log'.op \in ReplyOps =>
              Len(requests') = Len(requests) - 1 /\ AppendedOne("bot")
       /\ log'.op \notin (ReplyOps \cup {"submit", "create", "clear", "init"}) =>
              allSessions' = allSessions]_vars

\* C17: when the network answers every request, every pending submission
\* comes to its end, whatever else happens in between; the run that ends it
\* appends a bot message, and a request leaves the pending ones only by being
\* answered.
C17_PendingCompletes ==
    /\ (requests # << >>) ~> (requests = << >>)
    /\ [][/\ Len(requests') < Len(requests) => log'.op \in ReplyOps
          /\ log'.op \in ReplyOps =>
                CountMessages(allSessions') > CountMessages(allSessions)]_vars

\* the rendered messages of a chat history, its typing placeholders left out
IsStoredElement(e) == ~e.typing
StoredElements(ui) == SelectSeq(ui, IsStoredElement)

IsPrefix(s, t) == Len(s) <= Len(t) /\ SubSeq(t, 1, Len(s)) = s

\* C18: the runs that end a submission remove its typing placeholder and no
\* rendered message: the rendered messages stay, in their order, and once no
\* submission is pending no placeholder is displayed.
C18_PlaceholderRemoved ==
    [][/\ log'.op \in (ReplyOps \cup {"resolved"}) =>
              IsPrefix(StoredElements(chatHistory), StoredElements(chatHistory'))
       /\ requests' = << >> =>
              \A k \in 1..Len(chatHistory') : ~chatHistory'[k].typing]_vars

\* the session of S with the given id
SessionOf(S, id) == S[IndexOf(S, id)]

\* C19: a step that is not a clear keeps every session id, every session's
\* title, and every session's messages as a prefix of its later messages; a
\* createNewSession leaves the sessions that existed exactly as they were.
C19_OnlyClearRemoves ==
    [][log'.op # "clear" =>
          \A i \in 1..Len(allSessions) :
              LET old == allSessions[i]
              IN  /\ HasKey(allSessions', old.id)
                  /\ SessionOf(allSessions', old.id).title = old.title
                  /\ IsPrefix(old.messages, SessionOf(allSessions', old.id).messages)
                  /\ log'.op = "create" => SessionOf(allSessions', old.id) = old]_vars

\* C20: started on an empty store, every session always has messages and its
\* first message is the bot greeting; so an export of an existing active
\* session never shows the failure notification.
C20_SessionsStartWithGreeting ==
    /\ \A i \in 1..Len(allSessions) :
          /\ allSessions[i].messages # << >>
          /\ allSessions[i].messages[1] = Message("bot", Greeting)
    /\ (log.op = "export" /\ HasKey(allSessions, currentSessionId)) =>
          log.shown = 0 /\ download # NoDownload

\* C20 witness: an export after the chat was cleared while a submission was
\* pending: the session was emptied down to its greeting and then exported.
C20_Witness ==
    /\ log.op = "export"
    /\ requests # << >>
    /\ HasKey(allSessions, currentSessionId)
    /\ notification.text = <<"Chat cleared">>
    /\ download.text = <<"[", "AI Assistant", "]: ">> \o Greeting \o <<"\n">>

====
